---- MODULE Spec2Model ----
(***************************************************************************)
(* Model of the process lifecycle supervisor of AppCtrl                    *)
(* (src-tauri/src/lib.rs): the ProcessManager registry behind its Mutex,   *)
(* the commands start_app, stop_app and is_app_running, the exit watcher   *)
(* thread every successful start_app spawns, and the child processes of    *)
(* the operating system; the output relay threads of a child (RelaySpec);  *)
(* and the host inspector commands get_listening_ports and                 *)
(* kill_process_by_name (PortsSpec, KillSpec).                             *)
(*                                                                         *)
(* Every command runs on its own request thread.  A thread's position is   *)
(* pc[t]; a critical section of the registry Mutex is two steps: the       *)
(* lock() call, which waits until the Mutex is free, and the body up to    *)
(* the point where the guard is dropped.  Nothing else can observe the     *)
(* registry inside a body, so a body is one step.                          *)
(***************************************************************************)
EXTENDS Integers, Sequences, FiniteSets, TLC

\* ---------------------------------------------------------------- bounds
\* Commands the GUI issues in one behaviour.
MaxReq == 2

\* Commands the GUI of RestartSpec issues in one behaviour.
MaxRestartReq == 3

\* Lines a child writes to one of its streams.
MaxLines == 2
\* Lines of netstat output in one call of get_listening_ports.
MaxRows == 3
\* kill_process_by_name calls in one behaviour of KillSpec.
MaxHostCalls == 2

AppIds == {"x", "y"}
Threads == {1, 2}
\* Every command spawns at most one child.
Handles == 1..MaxReq

\* The working_dir the GUI passes for an app: empty for "x", set for "y".
HasWorkingDir(x) == x = "y"

\* ExitStatus::code() is an Option<i32>: <<c>> is Some(c), <<>> is None
\* (the child was ended by a signal).
ExitStatuses == {<<0>>, <<1>>, <<>>}

\* What "taskkill /F /IM name" of the hinted branch of stop_app can do: the
\* command cannot be run ("ioerror"), it ends a process ("success"), or it
\* ends none ("failure").
TaskkillOutcomes == {"success", "failure", "ioerror"}
\* The hinted branch runs no command: exe_path is None or has no file
\* name, or the build is not for Windows.
Unattempted == "unattempted"

VARIABLES
    processes,  \* ProcessManager.processes: app id -> handle, 0 when absent
    lock,       \* holder of the Mutex around processes
    pc,         \* position of each request thread
    req,        \* the command a request thread runs: op, app_id, exe_path
    result,     \* what the thread's command returned
    child,      \* start_app's local `child`: the handle it spawned, or 0
    status,     \* operating-system state of each child process
    appOf,      \* app_id captured by the start_app call that spawned a child
    wpc,        \* position of the exit watcher thread spawned with a child
    events,     \* per app id, the events emitted to the GUI, in order
    nreq,       \* commands issued so far
    waited,     \* the watcher's local `status`: what try_wait collected
    pipe,       \* per child and stream, the lines written and not yet read
    wrote,      \* per child and stream, every line written so far, in order
    rpc,        \* position of the relay thread of each child and stream
    host        \* the last operating-system command run: input and result

\* The relays' state and the host inspector's.
relayvars == <<pipe, wrote, rpc>>

vars == <<processes, lock, pc, req, result, child, status, appOf, wpc,
          events, nreq, waited, pipe, wrote, rpc, host>>

\* The watcher's `status` of a child no try_wait has collected: no Option.
NotWaited == <<"none", "none">>

\* The two pipes of a child.
Streams == {"stdout", "stderr"}
\* `host` when no operating-system command has been run; seq counts the
\* commands run.
NoHost ==
    [op |-> "none", seq |-> 0, input |-> <<>>, out |-> "none", list |-> <<>>]
\* `host` after the taskkill /F /IM of the hinted branch of stop_app.
Taskkill(outcome) ==
    [op |-> "taskkill_im", seq |-> host.seq + 1, input |-> <<>>,
     out |-> outcome, list |-> <<>>]

Free == <<"free", 0>>
ReqHolder(t) == <<"req", t>>
WatchHolder(h) == <<"watch", h>>

NoReq == [op |-> "none", app |-> "", hint |-> FALSE]

\* app_handle.emit("app-output", {appId, line}).  `run` is not part of the
\* payload: it records which child the line is about (0: none).
\* `line` is the fixed text of the line and `arg` the number formatted into
\* it, if any.
OutputArg(x, l, a, h) ==
    [kind |-> "app-output", app |-> x, line |-> l, arg |-> a, run |-> h]
Output(x, l, h) == OutputArg(x, l, 0, h)
\* app_handle.emit("app-stopped", {appId}).
Stopped(x, h) ==
    [kind |-> "app-stopped", app |-> x, line |-> "", arg |-> 0, run |-> h]

\* app_handle.emit of the events es, all of them about app id x.
Emit(x, es) == [events EXCEPT ![x] = @ \o es]

\* The handle the next successful Command::spawn creates.
Unborn == {h \in Handles : status[h] = "unborn"}
NextHandle == CHOOSE h \in Unborn : \A g \in Unborn : h <= g

\* ProcessManager::new() and an idle application.
Init ==
    /\ processes = [x \in AppIds |-> 0]
    /\ lock = Free
    /\ pc = [t \in Threads |-> "idle"]
    /\ req = [t \in Threads |-> NoReq]
    /\ result = [t \in Threads |-> "none"]
    /\ child = [t \in Threads |-> 0]
    /\ status = [h \in Handles |-> "unborn"]
    /\ appOf = [h \in Handles |-> ""]
    /\ wpc = [h \in Handles |-> "none"]
    /\ events = [x \in AppIds |-> <<>>]
    /\ nreq = 0
    /\ waited = [h \in Handles |-> NotWaited]
    /\ pipe = [h \in Handles |-> [s \in Streams |-> <<>>]]
    /\ wrote = [h \in Handles |-> [s \in Streams |-> <<>>]]
    /\ rpc = [h \in Handles |-> [s \in Streams |-> "none"]]
    /\ host = NoHost

\* ------------------------------------------------------- the GUI's calls
Begin(t, op, x, hint, first) ==
    /\ pc[t] = "idle"
    /\ \A u \in Threads : pc[u] = "idle" => t <= u
    /\ nreq < MaxReq
    /\ nreq' = nreq + 1
    /\ req' = [req EXCEPT ![t] = [op |-> op, app |-> x, hint |-> hint]]
    /\ result' = [result EXCEPT ![t] = "pending"]
    /\ pc' = [pc EXCEPT ![t] = first]
    /\ UNCHANGED <<processes, lock, child, status, appOf, wpc, events>>
    /\ UNCHANGED <<waited, relayvars, host>>

\* invoke("start_app", {appId: x, ..}): the thread is at the first lock().
InvokeStart(t, x) ==
    /\ pc[t] = "idle"
    /\ Begin(t, "start", x, FALSE, "s_lock1")

\* invoke("stop_app", {appId: x, exePath}): hint says exe_path is Some.
InvokeStop(t, x, hint) ==
    /\ pc[t] = "idle"
    /\ Begin(t, "stop", x, hint, "p_lock")

\* invoke("is_app_running", {appId: x}).
InvokeIsRunning(t, x) ==
    /\ pc[t] = "idle"
    /\ Begin(t, "is_running", x, FALSE, "q_lock")

\* state.processes.lock().unwrap(): wait for the Mutex, then hold it.
Acquire(t, from, to) ==
    /\ pc[t] = from
    /\ lock = Free
    /\ lock' = ReqHolder(t)
    /\ pc' = [pc EXCEPT ![t] = to]
    /\ UNCHANGED <<processes, req, result, child, status, appOf, wpc, events,
                   nreq, waited, relayvars, host>>

\* A command returns r to the GUI; its arguments and locals are gone.
Return(t, r) ==
    /\ result' = [result EXCEPT ![t] = r]
    /\ pc' = [pc EXCEPT ![t] = "idle"]
    /\ req' = [req EXCEPT ![t] = NoReq]
    /\ child' = [child EXCEPT ![t] = 0]

\* ------------------------------------------------------------- start_app
StartLock1(t) ==
    /\ req[t].op = "start"
    /\ Acquire(t, "s_lock1", "s_check")

\* Mutant of StartCheck: the result of contains_key is ignored.
StartCheck_Unchecked(t) ==
    /\ pc[t] = "s_check"
    /\ lock = ReqHolder(t)
    /\ lock' = Free
    /\ pc' = [pc EXCEPT ![t] = "s_spawn"]
    /\ UNCHANGED <<result, req, child>>
    /\ UNCHANGED <<processes, status, appOf, wpc, events, nreq>>
    /\ UNCHANGED <<waited, relayvars, host>>

\* Mutant of StartCheck: the guard of the check is not scoped to the check
\* and is still held when start_app goes on to spawn and to lock again.
StartCheck_GuardKept(t) ==
    /\ pc[t] = "s_check"
    /\ lock = ReqHolder(t)
    /\ IF processes[req[t].app] # 0
       THEN /\ lock' = Free
            /\ Return(t, "AlreadyRunning")
       ELSE /\ lock' = lock
            /\ pc' = [pc EXCEPT ![t] = "s_spawn"]
            /\ UNCHANGED <<result, req, child>>
    /\ UNCHANGED <<processes, status, appOf, wpc, events, nreq>>
    /\ UNCHANGED <<waited, relayvars, host>>

\* The first critical section: contains_key, then the guard is dropped.
StartCheck(t) ==
    /\ pc[t] = "s_check"
    /\ lock = ReqHolder(t)
    /\ lock' = Free
    /\ IF processes[req[t].app] # 0
       THEN Return(t, "AlreadyRunning")
       ELSE /\ pc' = [pc EXCEPT ![t] = "s_spawn"]
            /\ UNCHANGED <<result, req, child>>
    /\ UNCHANGED <<processes, status, appOf, wpc, events, nreq>>
    /\ UNCHANGED <<waited, relayvars, host>>

\* Mutant of SpawnLines: the started line is not emitted.
SpawnLines_NoStarted(x, h) ==
    IF HasWorkingDir(x) THEN <<Output(x, "Working dir", 0)>> ELSE <<>>

\* The lines start_app emits before and after a successful cmd.spawn().
SpawnLines(x, h) ==
    (IF HasWorkingDir(x) THEN <<Output(x, "Working dir", 0)>> ELSE <<>>)
    \o <<Output(x, "Started", h)>>

\* The lines start_app emits before and after a failed cmd.spawn().
FailLines(x) ==
    (IF HasWorkingDir(x) THEN <<Output(x, "Working dir", 0)>> ELSE <<>>)
    \o <<Output(x, "Failed to start", 0)>>

\* cmd.spawn() is Ok(c): the child h runs, the started line is emitted.
SpawnOk(t, x, h) ==
    /\ events' = Emit(x, SpawnLines(x, h))
    /\ status' = [status EXCEPT ![h] = "running"]
    /\ appOf' = [appOf EXCEPT ![h] = x]
    /\ child' = [child EXCEPT ![t] = h]
    /\ pc' = [pc EXCEPT ![t] = "s_lock2"]
    /\ UNCHANGED <<result, req>>

\* Mutant of SpawnErr: the failure is also reported as app-stopped.
SpawnErr_EmitsStopped(t, x) ==
    /\ events' = Emit(x, FailLines(x) \o <<Stopped(x, 0)>>)
    /\ Return(t, "SpawnError")
    /\ UNCHANGED <<status, appOf>>

\* cmd.spawn() is Err(e): the failure line is emitted, the command returns.
SpawnErr(t, x) ==
    /\ events' = Emit(x, FailLines(x))
    /\ Return(t, "SpawnError")
    /\ UNCHANGED <<status, appOf>>

\* The command is built and spawned, without the lock.
StartSpawn(t) ==
    /\ pc[t] = "s_spawn"
    /\ \/ Unborn # {} /\ SpawnOk(t, req[t].app, NextHandle)
       \/ SpawnErr(t, req[t].app)
    /\ UNCHANGED <<processes, lock, wpc, nreq, waited, relayvars, host>>

StartLock2(t) ==
    /\ req[t].op = "start"
    /\ Acquire(t, "s_lock2", "s_insert")

\* The second critical section: processes.insert(app_id, child).
StartInsert(t) ==
    /\ pc[t] = "s_insert"
    /\ lock = ReqHolder(t)
    /\ lock' = Free
    /\ processes' = [processes EXCEPT ![req[t].app] = child[t]]
    /\ pc' = [pc EXCEPT ![t] = "s_launch"]
    /\ UNCHANGED <<req, result, child, status, appOf, wpc, events, nreq>>
    /\ UNCHANGED <<waited, relayvars, host>>

\* std::thread::spawn of the two relays and of the exit watcher, then
\* Ok(()).
StartLaunch(t) ==
    /\ pc[t] = "s_launch"
    /\ rpc' = [rpc EXCEPT ![child[t]] = [s \in Streams |-> "reading"]]
    /\ wpc' = [wpc EXCEPT ![child[t]] = "sleep"]
    /\ Return(t, "Ok")
    /\ UNCHANGED <<processes, lock, status, appOf, events, nreq>>
    /\ UNCHANGED <<waited, pipe, wrote, host>>

\* -------------------------------------------------------------- stop_app
StopLock(t) ==
    /\ req[t].op = "stop"
    /\ Acquire(t, "p_lock", "p_body")

\* Mutant of Kill: the child is not terminated.
Kill_Nothing(h) == status

\* child.kill() (after taskkill /F /T /PID on Windows); errors are ignored.
Kill(h) == [status EXCEPT ![h] = IF @ = "running" THEN "killed" ELSE @]

\* Mutant of StopManaged: processes.get instead of processes.remove.
StopManaged_KeepsEntry(t, x, h) ==
    /\ UNCHANGED <<processes, host>>
    /\ status' = [status EXCEPT ![h] = IF @ = "running" THEN "killed" ELSE @]
    /\ events' = Emit(x, <<Output(x, "Process stopped by user", h),
                           Stopped(x, h)>>)
    /\ Return(t, "Ok")

\* The branch `if let Some(mut child) = processes.remove(&app_id)`.
StopManaged(t, x, h) ==
    /\ processes' = [processes EXCEPT ![x] = 0]
    /\ UNCHANGED host
    /\ status' = Kill(h)
    /\ events' = Emit(x, <<Output(x, "Process stopped by user", h),
                           Stopped(x, h)>>)
    /\ Return(t, "Ok")

\* Mutant of StopUnmanaged: the outcome of the termination is not tested.
StopUnmanaged_AlwaysStopped(t, x, outcome) ==
    /\ UNCHANGED <<processes, status>>
    /\ host' = IF outcome = Unattempted THEN host ELSE Taskkill(outcome)
    /\ events' = Emit(x, <<Output(x, "External process stopped", 0),
                           Stopped(x, 0)>>)
    /\ Return(t, "Ok")

\* Mutant of StopUnmanaged: output.status.success() is not tested.
StopUnmanaged_Untested(t, x, outcome) ==
    /\ UNCHANGED <<processes, status>>
    /\ host' = IF outcome = Unattempted THEN host ELSE Taskkill(outcome)
    /\ IF outcome \in {"success", "failure"}
       THEN /\ events' = Emit(x, <<Output(x, "External process stopped", 0),
                                  Stopped(x, 0)>>)
            /\ Return(t, "Ok")
       ELSE /\ UNCHANGED events
            /\ Return(t, IF outcome = "ioerror" THEN "OsError"
                                                ELSE "NotRunning")

\* The else branch: taskkill /F /IM of the hint's file name, when one is run,
\* and what stop_app makes of its outcome.
StopUnmanaged(t, x, outcome) ==
    /\ UNCHANGED <<processes, status>>
    /\ host' = IF outcome = Unattempted THEN host ELSE Taskkill(outcome)
    /\ IF outcome = "success"
       THEN /\ events' = Emit(x, <<Output(x, "External process stopped", 0),
                                  Stopped(x, 0)>>)
            /\ Return(t, "Ok")
       ELSE /\ UNCHANGED events
            /\ Return(t, IF outcome = "ioerror" THEN "OsError"
                                                ELSE "NotRunning")

\* The whole body of stop_app; the guard lives until the function returns.
StopBody(t) ==
    /\ pc[t] = "p_body"
    /\ lock = ReqHolder(t)
    /\ lock' = Free
    /\ LET x == req[t].app
           h == processes[x]
       IN  IF h # 0
           THEN StopManaged(t, x, h)
           ELSE \E o \in TaskkillOutcomes \cup {Unattempted} :
                    /\ ~req[t].hint => o = Unattempted
                    /\ StopUnmanaged(t, x, o)
    /\ UNCHANGED <<appOf, wpc, nreq, waited, relayvars>>

\* -------------------------------------------------------- is_app_running
IsRunningLock(t) ==
    /\ req[t].op = "is_running"
    /\ Acquire(t, "q_lock", "q_body")

\* Mutant of IsRunningBody: !processes.is_empty() instead of contains_key.
IsRunningBody_AnyApp(t) ==
    /\ pc[t] = "q_body"
    /\ lock = ReqHolder(t)
    /\ lock' = Free
    /\ Return(t, IF \E x \in AppIds : processes[x] # 0 THEN "true"
                                                      ELSE "false")
    /\ UNCHANGED <<processes, status, appOf, wpc, events, nreq>>
    /\ UNCHANGED <<waited, relayvars, host>>

\* contains_key under the lock; the guard is dropped at the return.
IsRunningBody(t) ==
    /\ pc[t] = "q_body"
    /\ lock = ReqHolder(t)
    /\ lock' = Free
    /\ Return(t, IF processes[req[t].app] # 0 THEN "true" ELSE "false")
    /\ UNCHANGED <<processes, status, appOf, wpc, events, nreq>>
    /\ UNCHANGED <<waited, relayvars, host>>

\* ------------------------------------------------------ the exit watcher
\* child.try_wait() on handle g: "OkNone" while the child runs, "Err" when
\* its status cannot be collected, else "OkSome" with an exit status.  The
\* one status read of a child happens here, so this is where its value
\* is drawn.
TryWait(g) ==
    CASE status[g] = "running" -> "OkNone"
      [] status[g] = "lost" -> "Err"
      [] OTHER -> "OkSome"

\* Mutant of ExitCode: unwrap_or(0).
ExitCode_NoneIsZero(s) == IF s # <<>> THEN s[1] ELSE 0

\* status.code().unwrap_or(-1)
ExitCode(s) == IF s # <<>> THEN s[1] ELSE -1

\* The line the watcher composes from the exit code.
ExitLine(x, g, s) ==
    LET code == ExitCode(s)
    IN  IF code = 0 THEN Output(x, "Process exited successfully", g)
                    ELSE OutputArg(x, "Process exited with code", code, g)

\* After the sleep of 500 ms: state.processes.lock().unwrap().
WatcherLock(h) ==
    /\ wpc[h] = "sleep"
    /\ lock = Free
    /\ lock' = WatchHolder(h)
    /\ wpc' = [wpc EXCEPT ![h] = "locked"]
    /\ UNCHANGED <<processes, pc, req, result, child, status, appOf, events,
                   nreq, waited, relayvars, host>>

\* Mutant of WatcherExited: the entry is not removed.
WatcherExited_KeepsEntry(h, x, g, s) ==
    /\ waited' = [waited EXCEPT ![g] = s]
    /\ events' = Emit(x, <<ExitLine(x, g, s), Stopped(x, g)>>)
    /\ UNCHANGED processes
    /\ wpc' = [wpc EXCEPT ![h] = "done"]

\* The arm Ok(Some(status)): two emits, remove, break.
WatcherExited(h, x, g, s) ==
    /\ waited' = [waited EXCEPT ![g] = s]
    /\ events' = Emit(x, <<ExitLine(x, g, s), Stopped(x, g)>>)
    /\ processes' = [processes EXCEPT ![x] = 0]
    /\ wpc' = [wpc EXCEPT ![h] = "done"]

\* The arm Ok(None): next iteration.
WatcherRunning(h) ==
    /\ wpc' = [wpc EXCEPT ![h] = "sleep"]
    /\ UNCHANGED <<processes, events, waited>>

\* Mutant of WatcherErr: break without the remove.
WatcherErr_KeepsEntry(h, x) ==
    /\ wpc' = [wpc EXCEPT ![h] = "done"]
    /\ UNCHANGED <<processes, events, waited>>

\* The arm Err(_): remove, break.
WatcherErr(h, x) ==
    /\ processes' = [processes EXCEPT ![x] = 0]
    /\ wpc' = [wpc EXCEPT ![h] = "done"]
    /\ UNCHANGED <<events, waited>>

\* Mutant of WatcherAbsent: the watcher reports the stop on its way out.
WatcherAbsent_EmitsStopped(h) ==
    /\ wpc' = [wpc EXCEPT ![h] = "done"]
    /\ events' = Emit(appOf[h], <<Stopped(appOf[h], h)>>)
    /\ UNCHANGED <<processes, waited>>

\* The else of `if let Some(child) = processes.get_mut(..)`: break.
WatcherAbsent(h) ==
    /\ wpc' = [wpc EXCEPT ![h] = "done"]
    /\ UNCHANGED <<processes, events, waited>>

\* The rest of one iteration of the loop, up to the drop of the guard.
WatcherTick(h) ==
    /\ wpc[h] = "locked"
    /\ lock = WatchHolder(h)
    /\ lock' = Free
    /\ LET x == appOf[h]
           g == processes[x]
       IN  IF g = 0
           THEN WatcherAbsent(h)
           ELSE CASE TryWait(g) = "OkSome" ->
                       \E s \in ExitStatuses : WatcherExited(h, x, g, s)
                  [] TryWait(g) = "OkNone" -> WatcherRunning(h)
                  [] TryWait(g) = "Err" -> WatcherErr(h, x)
    /\ UNCHANGED <<pc, req, result, child, status, appOf, nreq>>
    /\ UNCHANGED <<relayvars, host>>

\* ------------------------------------------------- the operating system
\* A running child ends by itself; try_wait will report an exit status.
ProcExit(h) ==
    /\ status[h] = "running"
    /\ status' = [status EXCEPT ![h] = "exited"]
    /\ UNCHANGED <<processes, lock, pc, req, result, child, appOf, wpc,
                   events, nreq, waited, relayvars, host>>

\* A running child ends and its status cannot be collected: try_wait on
\* its handle fails from then on.
ProcLost(h) ==
    /\ status[h] = "running"
    /\ status' = [status EXCEPT ![h] = "lost"]
    /\ UNCHANGED <<processes, lock, pc, req, result, child, appOf, wpc,
                   events, nreq, waited, relayvars, host>>

\* ------------------------------------------------------- specifications
Next ==
    \/ \E t \in Threads, x \in AppIds : InvokeStart(t, x)
    \/ \E t \in Threads, x \in AppIds, hint \in BOOLEAN : InvokeStop(t, x, hint)
    \/ \E t \in Threads, x \in AppIds : InvokeIsRunning(t, x)
    \/ \E t \in Threads : StartLock1(t)
    \/ \E t \in Threads : StartCheck(t)
    \/ \E t \in Threads : StartSpawn(t)
    \/ \E t \in Threads : StartLock2(t)
    \/ \E t \in Threads : StartInsert(t)
    \/ \E t \in Threads : StartLaunch(t)
    \/ \E t \in Threads : StopLock(t)
    \/ \E t \in Threads : StopBody(t)
    \/ \E t \in Threads : IsRunningLock(t)
    \/ \E t \in Threads : IsRunningBody(t)
    \/ \E h \in Handles : WatcherLock(h)
    \/ \E h \in Handles : WatcherTick(h)
    \/ \E h \in Handles : ProcExit(h)
    \/ \E h \in Handles : ProcLost(h)

Spec == Init /\ [][Next]_vars

\* The steps of a command that is under way, and of a watcher.
CommandStep(t) ==
    \/ StartLock1(t) \/ StartCheck(t) \/ StartSpawn(t) \/ StartLock2(t)
    \/ StartInsert(t) \/ StartLaunch(t) \/ StopLock(t) \/ StopBody(t)
    \/ IsRunningLock(t) \/ IsRunningBody(t)

\* Scheduling: a thread that can take a step takes it, and a watcher gets
\* the Mutex again and again, since every holder releases it after a short
\* body and the watchers sleep 500 ms between two lock() calls.  Nothing is
\* assumed of the GUI (it may stop issuing commands) nor of a child (it may
\* run for ever).
Fairness ==
    /\ \A t \in Threads : SF_vars(CommandStep(t))
    /\ \A h \in Handles : SF_vars(WatcherLock(h)) /\ WF_vars(WatcherTick(h))

FairSpec == Init /\ [][Next]_vars /\ Fairness

\* ----------------------------------------------------- the host inspector
\* The supervisor's state, which no host inspector command touches.
supervisorvars ==
    <<processes, lock, pc, req, result, child, status, appOf, wpc, events,
      nreq, waited>>

\* Local ports and owning pids that netstat reports.
Ports == {80, 443}
Pids == {1, 2}
\* A line of "netstat -ano" after split_whitespace: a TCP line has a state
\* column, a UDP line has none.  A TCP line in another state stands for
\* every line the parser skips.
Rows ==
    [proto : {"TCP"}, port : Ports, pid : Pids,
     state : {"LISTENING", "ESTABLISHED"}]
        \cup [proto : {"UDP"}, port : Ports, pid : Pids, state : {""}]
Tables == UNION {[1..n -> Rows] : n \in 0..MaxRows}

\* pid_map.get(&pid), from tasklist: pid 1 is listed, pid 2 is not.
PidName(pid) == IF pid = 1 THEN "app.exe" ELSE "Unknown"

\* The two branches that push a PortInfo.
Listens(r) ==
    \/ r.proto = "TCP" /\ r.state = "LISTENING"
    \/ r.proto = "UDP"
PortInfo(r) ==
    [port |-> r.port, pid |-> r.pid, name |-> PidName(r.pid),
     protocol |-> r.proto]

\* The loop over netstat_out.lines().
RECURSIVE ParseNetstat(_)
ParseNetstat(table) ==
    IF table = <<>> THEN <<>>
    ELSE (IF Listens(Head(table)) THEN <<PortInfo(Head(table))>> ELSE <<>>)
             \o ParseNetstat(Tail(table))

\* All of ps but its last element.
Front(ps) == SubSeq(ps, 1, Len(ps) - 1)

\* p put into the sorted list after every element whose port is not larger.
InsertByPort(p, sorted) ==
    LET k == Cardinality({i \in DOMAIN sorted : sorted[i].port <= p.port})
    IN  SubSeq(sorted, 1, k) \o <<p>> \o SubSeq(sorted, k + 1, Len(sorted))

\* ports.sort_by_key(|p| p.port): a stable sort, equal ports keep their
\* order.
RECURSIVE SortByPort(_)
SortByPort(ps) ==
    IF ps = <<>> THEN <<>>
    ELSE InsertByPort(ps[Len(ps)], SortByPort(Front(ps)))

\* The closure of dedup_by.
SameSocket(a, b) ==
    a.port = b.port /\ a.pid = b.pid /\ a.protocol = b.protocol

\* ports.dedup_by(..): an element is dropped when the closure holds of it
\* and the element retained just before it.
RECURSIVE DedupBy(_)
DedupBy(ps) ==
    IF Len(ps) <= 1 THEN ps
    ELSE LET d == DedupBy(Front(ps))
             p == ps[Len(ps)]
         IN  IF SameSocket(p, d[Len(d)]) THEN d ELSE Append(d, p)

\* get_listening_ports: windows says the build is for Windows, cmd whether
\* tasklist and netstat could be run, table is what netstat printed.
GetListeningPorts(windows, cmd, table) ==
    /\ host.op = "none"
    /\ host' = [op |-> "get_listening_ports",
                seq |-> host.seq + 1,
                input |-> [windows |-> windows, cmd |-> cmd, table |-> table],
                out |-> IF ~windows THEN "Unsupported"
                        ELSE IF cmd = "ioerror" THEN "OsError" ELSE "Ok",
                list |-> IF windows /\ cmd = "ran"
                         THEN DedupBy(SortByPort(ParseNetstat(table)))
                         ELSE <<>>]
    /\ UNCHANGED <<supervisorvars, relayvars>>

\* What taskkill writes to stderr, word by word: that no process has the
\* name, in English and in the language of another Windows, and that a
\* process could not be terminated.
NotFoundText == <<"ERROR:", "The", "process", "n", "not", "found", ".">>
NotFoundLocalText ==
    <<"FEHLER:", "Der", "Prozess", "n", "wurde", "nicht", "gefunden", ".">>
DeniedText ==
    <<"ERROR:", "The", "process", "n", "could", "not", "be", "terminated",
      ".">>

\* What "taskkill /F /IM n" can do when a process named n exists or not:
\* exit status and stderr.
TaskkillRuns(exists) ==
    IF exists
    THEN {[success |-> TRUE, stderr |-> <<>>],
          [success |-> FALSE, stderr |-> DeniedText]}
    ELSE {[success |-> FALSE, stderr |-> NotFoundText],
          [success |-> FALSE, stderr |-> NotFoundLocalText]}

\* err.contains("not found")
ContainsNotFound(err) ==
    \E i \in 1..(Len(err) - 1) : err[i] = "not" /\ err[i + 1] = "found"

\* Mutant of KillResult: a failed taskkill is always an error, as in
\* kill_process_by_pid.
KillResult_NoNormalisation(windows, cmd, run) ==
    IF ~windows THEN "Unsupported"
    ELSE IF cmd = "ioerror" THEN "OsError"
    ELSE IF run.success THEN "Ok"
    ELSE "Err"

\* What kill_process_by_name returns.
KillResult(windows, cmd, run) ==
    IF ~windows THEN "Unsupported"
    ELSE IF cmd = "ioerror" THEN "OsError"
    ELSE IF run.success THEN "Ok"
    ELSE IF ContainsNotFound(run.stderr) THEN "Ok"
    ELSE "Err"

\* kill_process_by_name(n): exists says whether a process named n runs.
\* host.list keeps the calls made so far, each with its result.
KillProcessByName(windows, cmd, exists, run) ==
    /\ host.op \in {"none", "kill_process_by_name"}
    /\ host.seq < MaxHostCalls
    /\ LET in == [windows |-> windows, cmd |-> cmd, exists |-> exists,
                  run |-> run]
           out == KillResult(windows, cmd, run)
       IN  host' = [op |-> "kill_process_by_name",
                    seq |-> host.seq + 1,
                    input |-> in,
                    out |-> out,
                    list |-> Append(host.list, [input |-> in, out |-> out])]
    /\ UNCHANGED <<supervisorvars, relayvars>>

\* The host inspector alone.  Its commands share no state with the
\* supervisor nor with each other, so each is taken by itself: one query of
\* the ports, or a series of kill_process_by_name calls.
PortsNext ==
    \E windows \in BOOLEAN, cmd \in {"ran", "ioerror"}, table \in Tables :
        GetListeningPorts(windows, cmd, table)

PortsSpec == Init /\ [][PortsNext]_vars

KillNext ==
    \E windows \in BOOLEAN, cmd \in {"ran", "ioerror"}, exists \in BOOLEAN :
        \E run \in TaskkillRuns(exists) :
            KillProcessByName(windows, cmd, exists, run)

KillSpec == Init /\ [][KillNext]_vars

\* ---------------------------------------------- restarts of a single app
\* A GUI that starts and stops the one app "x", without hint, and waits for
\* the answer to a command before it issues the next: no two commands ever
\* run at the same time.
RestartInvoke(t, op, first) ==
    /\ \A u \in Threads : pc[u] = "idle"
    /\ \A u \in Threads : t <= u
    /\ nreq < MaxRestartReq
    /\ nreq' = nreq + 1
    /\ req' = [req EXCEPT ![t] = [op |-> op, app |-> "x", hint |-> FALSE]]
    /\ result' = [result EXCEPT ![t] = "pending"]
    /\ pc' = [pc EXCEPT ![t] = first]
    /\ UNCHANGED <<processes, lock, child, status, appOf, wpc, events>>
    /\ UNCHANGED <<waited, relayvars, host>>

\* invoke("start_app", {appId: "x", ..})
RestartStart(t) ==
    /\ pc[t] = "idle"
    /\ RestartInvoke(t, "start", "s_lock1")

\* invoke("stop_app", {appId: "x", exePath: null})
RestartStop(t) ==
    /\ pc[t] = "idle"
    /\ RestartInvoke(t, "stop", "p_lock")

RestartNext ==
    \/ \E t \in Threads : RestartStart(t)
    \/ \E t \in Threads : RestartStop(t)
    \/ \E t \in Threads : StartLock1(t)
    \/ \E t \in Threads : StartCheck(t)
    \/ \E t \in Threads : StartSpawn(t)
    \/ \E t \in Threads : StartLock2(t)
    \/ \E t \in Threads : StartInsert(t)
    \/ \E t \in Threads : StartLaunch(t)
    \/ \E t \in Threads : StopLock(t)
    \/ \E t \in Threads : StopBody(t)
    \/ \E h \in Handles : WatcherLock(h)
    \/ \E h \in Handles : WatcherTick(h)
    \/ \E h \in Handles : ProcExit(h)
    \/ \E h \in Handles : ProcLost(h)

\* The same program and scheduling, driven by that GUI.
RestartSpec == Init /\ [][RestartNext]_vars /\ Fairness

\* ------------------------------------------------------ the output relays
\* What a child writes as one line: a text, or bytes that are not UTF-8.
\* A relay does not look into a text, so the texts a child writes to one
\* stream are taken to differ: its k-th line there is Script[k] when it is
\* a text.
BadLine == "\\xFF"
Script == <<"A", "B", "C", "D">>
Lines == {Script[k] : k \in DOMAIN Script} \cup {BadLine}
\* reader.lines() yields Ok(line) for it.
Decodable(l) == l # BadLine

\* The line of the event a relay emits for the line l of stream s.
RelayLine(s, l) == IF s = "stderr" THEN "[stderr] " \o l ELSE l

\* The child h writes a line to its stream s, a text or not.  The pipe
\* exists from the spawn on, before any relay reads it.
ChildWrite(h, s, text) ==
    /\ status[h] = "running"
    /\ Len(wrote[h][s]) < MaxLines
    /\ LET l == IF text THEN Script[Len(wrote[h][s]) + 1] ELSE BadLine
       IN  /\ pipe' = [pipe EXCEPT ![h][s] = Append(@, l)]
           /\ wrote' = [wrote EXCEPT ![h][s] = Append(@, l)]
    /\ UNCHANGED <<supervisorvars, rpc, host>>

\* Mutant of RelayRead: the relay takes the newest line of the pipe.
RelayRead_Newest(h, s) ==
    /\ rpc[h][s] = "reading"
    /\ pipe[h][s] # <<>>
    /\ LET l == pipe[h][s][Len(pipe[h][s])]
       IN  /\ pipe' = [pipe EXCEPT ![h][s] = SubSeq(@, 1, Len(@) - 1)]
           /\ events' = IF Decodable(l)
                        THEN Emit(appOf[h],
                                  <<Output(appOf[h], RelayLine(s, l), h)>>)
                        ELSE events
    /\ UNCHANGED <<processes, lock, pc, req, result, child, status, appOf,
                   wpc, nreq, waited, wrote, rpc, host>>

\* One iteration of `for line in reader.lines().flatten()`: the next line
\* of the pipe is read and emitted; a line that is not UTF-8 is skipped.
RelayRead(h, s) ==
    /\ rpc[h][s] = "reading"
    /\ pipe[h][s] # <<>>
    /\ LET l == Head(pipe[h][s])
       IN  /\ pipe' = [pipe EXCEPT ![h][s] = Tail(@)]
           /\ events' = IF Decodable(l)
                        THEN Emit(appOf[h],
                                  <<Output(appOf[h], RelayLine(s, l), h)>>)
                        ELSE events
    /\ UNCHANGED <<processes, lock, pc, req, result, child, status, appOf,
                   wpc, nreq, waited, wrote, rpc, host>>

\* End of stream: the child is gone and the pipe is drained; the loop and
\* the thread end.
RelayEof(h, s) ==
    /\ rpc[h][s] = "reading"
    /\ pipe[h][s] = <<>>
    /\ status[h] # "running"
    /\ rpc' = [rpc EXCEPT ![h][s] = "done"]
    /\ UNCHANGED <<supervisorvars, pipe, wrote, host>>

\* The GUI of RelaySpec starts the app "x" once and may stop it once the
\* start has answered: one run, whose output is relayed.
RelayStart(t) ==
    /\ nreq = 0
    /\ RestartStart(t)
RelayStop(t) ==
    /\ nreq = 1
    /\ RestartStop(t)

RelayNext ==
    \/ \E t \in Threads : RelayStart(t)
    \/ \E t \in Threads : RelayStop(t)
    \/ \E t \in Threads : StartLock1(t)
    \/ \E t \in Threads : StartCheck(t)
    \/ \E t \in Threads : StartSpawn(t)
    \/ \E t \in Threads : StartLock2(t)
    \/ \E t \in Threads : StartInsert(t)
    \/ \E t \in Threads : StartLaunch(t)
    \/ \E t \in Threads : StopLock(t)
    \/ \E t \in Threads : StopBody(t)
    \/ \E h \in Handles : WatcherLock(h)
    \/ \E h \in Handles : WatcherTick(h)
    \/ \E h \in Handles : ProcExit(h)
    \/ \E h \in Handles, s \in Streams, text \in BOOLEAN :
           ChildWrite(h, s, text)
    \/ \E h \in Handles, s \in Streams : RelayRead(h, s)
    \/ \E h \in Handles, s \in Streams : RelayEof(h, s)

\* The supervisor of one run with the output of its child relayed.
RelaySpec == Init /\ [][RelayNext]_vars

\* ------------------------------------------------------------ vocabulary
\* The start_app call that spawned h has returned Ok.
Launched(h) == wpc[h] # "none"
\* The registry holds h.
InRegistry(h) == status[h] # "unborn" /\ processes[appOf[h]] = h
\* Positions of the app-stopped events about child h.
StoppedAt(h) ==
    UNION {{<<x, i>> : i \in {j \in DOMAIN events[x] :
                                 events[x][j] = Stopped(x, h)}} : x \in AppIds}
StoppedCount(h) == Cardinality(StoppedAt(h))
\* The line l about child h has been emitted.
HasLine(h, l) ==
    \E x \in AppIds : \E i \in DOMAIN events[x] :
        events[x][i].line = l /\ events[x][i].run = h
\* Thread t takes the step that leaves position p.
Leaves(t, p) == pc[t] = p /\ pc'[t] # p

\* ------------------------------------------------------------------ C1
\* C1: of two start calls for the same app id with no stop and no process
\* exit in between, at most one returns success.  Stated on the children:
\* no two children of the same app id, both spawned by a start_app call
\* that returned Ok, are both still running (a stop kills the child it
\* removes, an exit ends it).
C1_AtMostOneStartSucceeds ==
    \A h1 \in Handles, h2 \in Handles :
        ~ /\ h1 # h2
          /\ appOf[h1] = appOf[h2]
          /\ Launched(h1) /\ Launched(h2)
          /\ status[h1] = "running" /\ status[h2] = "running"

\* ------------------------------------------------------------------ C2
\* C2: whenever start inserts a handle under app_id the registry holds no
\* entry for app_id at that moment, and so at most one child spawned for an
\* app id is running and registered-or-about-to-be at any instant.
LiveChildren(x) == {h \in Handles : appOf[h] = x /\ status[h] = "running"}
C2_InsertNeverReplaces ==
    /\ [][\A t \in Threads :
            Leaves(t, "s_insert") => processes[req[t].app] = 0]_vars
    /\ [](\A x \in AppIds : Cardinality(LiveChildren(x)) <= 1)

\* ------------------------------------------------------------------ C3
\* C3: for every run (every child a start_app call registered) the
\* app-stopped event about it is emitted at most once, whatever the
\* interleaving of stop_app, the watchers' ticks and the child's exit.
C3_StoppedAtMostOncePerRun == \A h \in Handles : StoppedCount(h) <= 1

\* A stop that raced the natural exit: the child had exited by itself, stop
\* removed it and emitted its events, and its watcher has ticked since.
C3_Witness ==
    \E h \in Handles :
        /\ status[h] = "exited"
        /\ HasLine(h, "Process stopped by user")
        /\ wpc[h] = "done"

\* ------------------------------------------------------------------ C4
\* C4: under fair scheduling, once a child that start registered has exited
\* (with code 0 or any other status try_wait can report), eventually
\* exactly one app-stopped event about that run has been emitted and the
\* registry holds no entry for its app id, so that the check of a fresh
\* start finds the id absent.
C4_ExitRoundTrip ==
    \A h \in Handles :
        (InRegistry(h) /\ status[h] = "exited")
            ~> (/\ status[h] # "unborn"
                /\ processes[appOf[h]] = 0
                /\ StoppedCount(h) = 1)

\* No start_app call for the app id of h is between its check and its
\* insert.
NoStartInFlight(h) ==
    \A t \in Threads :
        pc[t] \in {"s_spawn", "s_lock2", "s_insert"} => req[t].app # appOf[h]

\* C4 where no other start of the same id is between its two critical
\* sections: the round trip completes.
C4_RoundTripOutsideRace ==
    \A h \in Handles :
        (InRegistry(h) /\ status[h] = "exited" /\ NoStartInFlight(h))
            ~> (/\ status[h] # "unborn"
                /\ processes[appOf[h]] = 0
                /\ StoppedCount(h) = 1)

\* ------------------------------------------------------------------ C5
\* C5: a start whose check finds app_id in the registry returns
\* AlreadyRunning at once: it spawns nothing, emits nothing and leaves the
\* registry as it is; and the entry a successful start inserted stays until
\* a stop of that id or a watcher that saw the child gone removes it, so a
\* second start issued before any stop or exit finds it.
C5_SecondStartRejected ==
    /\ [][\A t \in Threads :
            (Leaves(t, "s_check") /\ processes[req[t].app] # 0)
                => /\ result'[t] = "AlreadyRunning"
                   /\ pc'[t] = "idle"
                   /\ processes' = processes
                   /\ status' = status
                   /\ events' = events
                   /\ wpc' = wpc]_vars
    /\ [][\A x \in AppIds :
            (processes[x] # 0 /\ processes'[x] = 0)
                => \/ \E t \in Threads :
                          Leaves(t, "p_body") /\ req[t].app = x
                   \/ \E h \in Handles :
                          /\ wpc[h] = "locked" /\ wpc'[h] = "done"
                          /\ appOf[h] = x
                          /\ status[processes[x]] # "running"]_vars

\* A start returned AlreadyRunning while the child of an earlier, successful
\* start is running and registered.
C5_Witness ==
    \E t \in Threads, h \in Handles :
        /\ result[t] = "AlreadyRunning"
        /\ Launched(h) /\ InRegistry(h) /\ status[h] = "running"

\* ------------------------------------------------------------------ C6
\* C6: a stop that finds app_id in the registry holds the lock for its
\* whole body, and when it returns (success) the entry is removed and the
\* child is not running any more; an absent id becomes present again only
\* by the insert of a start.
C6_StopRemovesAndKills ==
    /\ [][\A t \in Threads :
            (Leaves(t, "p_body") /\ processes[req[t].app] # 0)
                => /\ lock = ReqHolder(t) /\ lock' = Free
                   /\ result'[t] = "Ok"
                   /\ processes'[req[t].app] = 0
                   /\ status'[processes[req[t].app]] # "running"]_vars
    /\ [][\A x \in AppIds :
            (processes[x] = 0 /\ processes'[x] # 0)
                => \E t \in Threads :
                       Leaves(t, "s_insert") /\ req[t].app = x]_vars

\* A running child was stopped: it is killed and its id is absent.
C6_Witness ==
    \E h \in Handles :
        /\ status[h] = "killed"
        /\ HasLine(h, "Process stopped by user")
        /\ processes[appOf[h]] = 0

\* ------------------------------------------------------------------ C7
\* C7: for an app id that is not in the registry, stop without a hint
\* returns NotRunning, emits nothing and leaves the registry unchanged, and
\* is_running returns false.
C7_StopAbsentNotRunning ==
    [][\A t \in Threads :
        /\ (Leaves(t, "p_body") /\ processes[req[t].app] = 0 /\ ~req[t].hint)
               => /\ result'[t] = "NotRunning"
                  /\ events' = events
                  /\ processes' = processes
                  /\ status' = status
        /\ (Leaves(t, "q_body") /\ processes[req[t].app] = 0)
               => result'[t] = "false"]_vars

\* Both answers have been given: a stop without hint returned NotRunning and
\* a query returned false, each for an id the registry did not hold.
C7_Witness ==
    /\ \E t \in Threads : result[t] = "NotRunning"
    /\ \E t \in Threads : result[t] = "false"

\* ------------------------------------------------------------------ C8
\* C8: when the spawn fails, start returns SpawnError, the registry and the
\* watchers are as before, no child exists for the call and no app-stopped
\* event is emitted by it; the command is over, so nothing is inserted later.
C8_SpawnFailureLeavesRegistry ==
    [][\A t \in Threads :
        (Leaves(t, "s_spawn") /\ result'[t] = "SpawnError")
            => /\ pc'[t] = "idle"
               /\ processes' = processes
               /\ wpc' = wpc
               /\ status' = status
               /\ child'[t] = 0
               /\ \A x \in AppIds : \A i \in DOMAIN events'[x] :
                      i > Len(events[x])
                          => events'[x][i].kind # "app-stopped"]_vars

\* A start failed to spawn while the registry held a running app.
C8_Witness ==
    /\ \E t \in Threads : result[t] = "SpawnError"
    /\ \E h \in Handles : InRegistry(h)

\* ------------------------------------------------------------------ C9
\* C9 as stated: every app-stopped event for an app id is preceded by the
\* started line of a start of that id.
C9_StoppedOnlyAfterStarted ==
    \A x \in AppIds : \A i \in DOMAIN events[x] :
        events[x][i].kind = "app-stopped"
            => \E j \in 1..(i - 1) : events[x][j].line = "Started"

\* C9 amended: every app-stopped event that stop_app's registry branch or a
\* watcher emits is about a child whose started line was emitted before it;
\* only the hinted branch of stop_app, which ends a process the supervisor
\* did not start, emits app-stopped without a start.
C9_RunStoppedAfterStarted ==
    \A x \in AppIds : \A i \in DOMAIN events[x] :
        events[x][i].kind = "app-stopped"
            => \/ \E j \in 1..(i - 1) :
                      events[x][j] = Output(x, "Started", events[x][i].run)
               \/ /\ events[x][i].run = 0
                  /\ i > 1
                  /\ events[x][i - 1].line = "External process stopped"

\* Both kinds of app-stopped event have been emitted.
C9_Witness ==
    /\ \E h \in Handles : StoppedCount(h) = 1
    /\ \E x \in AppIds : \E i \in DOMAIN events[x] : events[x][i] = Stopped(x, 0)

\* ----------------------------------------------------------------- C10
\* C10: once the app-stopped event of a run has been emitted, the registry
\* does not hold the child of that run.
C10_NoEntryAfterStopped ==
    \A h \in Handles : StoppedCount(h) >= 1 => ~InRegistry(h)

\* The watcher reported the exit of a child and a stop of the same app id,
\* which came too late, found nothing.
C10_Witness ==
    \E h \in Handles :
        /\ StoppedCount(h) = 1
        /\ status[h] = "exited"
        /\ ~HasLine(h, "Process stopped by user")
        /\ \E t \in Threads : result[t] = "NotRunning"

\* Watcher h takes the rest of its tick.
Ticks(h) == wpc[h] = "locked" /\ wpc'[h] # "locked"

\* ----------------------------------------------------------------- C12
\* C12: is_running returns true exactly when the registry holds app_id while
\* the command holds the lock, and the command changes neither the registry
\* nor any process, watcher or event.
C12_IsRunningIsMembership ==
    [][\A t \in Threads :
        Leaves(t, "q_body")
            => /\ lock = ReqHolder(t)
               /\ result'[t] \in {"true", "false"}
               /\ (result'[t] = "true") <=> (processes[req[t].app] # 0)
               /\ processes' = processes
               /\ status' = status
               /\ wpc' = wpc
               /\ events' = events]_vars

\* is_running answered true for an app whose child is registered.
C12_Witness ==
    /\ \E t \in Threads : result[t] = "true"
    /\ \E h \in Handles : InRegistry(h)

\* ----------------------------------------------------------------- C13
\* C13: on the tick where try_wait reports an exit status, the watcher
\* emits one diagnostic line, worded as success exactly when the exit code
\* is 0 and as failure for a nonzero code and for no code, and right after
\* it the app-stopped event, which carries no exit code.
C13_ExitWording ==
    [][\A h \in Handles :
        (/\ Ticks(h)
         /\ processes[appOf[h]] # 0
         /\ TryWait(processes[appOf[h]]) = "OkSome")
            => LET x == appOf[h]
                   g == processes[x]
                   n == Len(events[x])
                   e == events'[x][n + 1]
               IN  /\ Len(events'[x]) = n + 2
                   /\ e.kind = "app-output" /\ e.app = x
                   /\ (e.line = "Process exited successfully")
                          <=> (waited'[g] = <<0>>)
                   /\ (e.line = "Process exited with code")
                          <=> (waited'[g] # <<0>>)
                   /\ events'[x][n + 2] =
                          [kind |-> "app-stopped", app |-> x, line |-> "",
                           arg |-> 0, run |-> g]]_vars

\* A child ended without an exit code and another with code 0; both exits
\* were reported.
C13_Witness ==
    /\ \E h \in Handles :
           /\ waited[h] = <<>>
           /\ HasLine(h, "Process exited with code")
           /\ StoppedCount(h) = 1
    /\ \E h \in Handles :
           /\ waited[h] = <<0>>
           /\ HasLine(h, "Process exited successfully")
           /\ StoppedCount(h) = 1

\* ----------------------------------------------------------------- C18
\* C18: on a tick where the registry does not hold the watcher's app id the
\* watcher terminates and nothing else changes: no event is emitted and the
\* registry, the processes and the commands are as before.
C18_AbsentTickSilent ==
    [][\A h \in Handles :
        (Ticks(h) /\ processes[appOf[h]] = 0)
            => /\ wpc'[h] = "done"
               /\ lock' = Free
               /\ events' = events
               /\ processes' = processes
               /\ status' = status
               /\ pc' = pc
               /\ result' = result
               /\ \A g \in Handles \ {h} : wpc'[g] = wpc[g]]_vars

\* The watcher of a child that stop killed has terminated, with the one
\* app-stopped event of the run being that of stop.
C18_Witness ==
    \E h \in Handles :
        /\ status[h] = "killed"
        /\ wpc[h] = "done"
        /\ processes[appOf[h]] = 0
        /\ StoppedCount(h) = 1

\* ----------------------------------------------------------------- C20
\* C20: on the tick where try_wait fails, the watcher removes the entry of
\* its app id and terminates, emitting nothing; with the id absent,
\* is_running answers false and the check of a start passes on to the spawn.
C20_TryWaitErrRemoves ==
    /\ [][\A h \in Handles :
            (/\ Ticks(h)
             /\ processes[appOf[h]] # 0
             /\ TryWait(processes[appOf[h]]) = "Err")
                => /\ wpc'[h] = "done"
                   /\ processes'[appOf[h]] = 0
                   /\ \A x \in AppIds \ {appOf[h]} :
                          processes'[x] = processes[x]
                   /\ events' = events
                   /\ status' = status]_vars
    /\ [][\A t \in Threads :
            /\ (Leaves(t, "q_body") /\ processes[req[t].app] = 0)
                   => result'[t] = "false"
            /\ (Leaves(t, "s_check") /\ processes[req[t].app] = 0)
                   => pc'[t] = "s_spawn" /\ result'[t] = "pending"]_vars

\* The status of a child was lost, its watcher removed the entry without a
\* word, and a later start of the same app id was accepted.
C20_Witness ==
    \E h \in Handles, g \in Handles :
        /\ status[h] = "lost"
        /\ wpc[h] = "done"
        /\ StoppedCount(h) = 0
        /\ ~HasLine(h, "Process stopped by user")
        /\ g > h
        /\ appOf[g] = appOf[h]
        /\ Launched(g) /\ InRegistry(g)

\* ----------------------------------------------------------------- C15
\* The hinted branch of stop_app ran its taskkill in this step.
Attempted == host'.seq = host.seq + 1
\* The two events of a successful hinted stop of app id x.
ExternalStopped(x) ==
    <<[kind |-> "app-output", app |-> x, line |-> "External process stopped",
       arg |-> 0, run |-> 0],
      [kind |-> "app-stopped", app |-> x, line |-> "", arg |-> 0, run |-> 0]>>

\* C15 as stated: a stop with a hint for an app id the registry does not
\* hold attempts the hinted termination, returns success, with the stopped
\* event, exactly when the termination succeeded and NotRunning otherwise,
\* and leaves the registry unchanged.
C15_HintedStopOkOrNotRunning ==
    [][\A t \in Threads :
        (Leaves(t, "p_body") /\ processes[req[t].app] = 0 /\ req[t].hint)
            => /\ Attempted
               /\ result'[t] \in {"Ok", "NotRunning"}
               /\ (result'[t] = "Ok") <=> (host'.out = "success")
               /\ events' = IF result'[t] = "Ok"
                            THEN [events EXCEPT ![req[t].app] =
                                      @ \o ExternalStopped(req[t].app)]
                            ELSE events
               /\ processes' = processes]_vars

\* C15 amended: such a stop leaves the registry and the children unchanged
\* and returns success, with the stopped event, exactly when it ran the
\* hinted termination and that succeeded; it returns the error of the
\* operating system when the termination command could not be run, and
\* NotRunning when the command ended no process or no command was run.
C15_HintedStop ==
    [][\A t \in Threads :
        (Leaves(t, "p_body") /\ processes[req[t].app] = 0 /\ req[t].hint)
            => /\ result'[t] \in {"Ok", "NotRunning", "OsError"}
               /\ (result'[t] = "Ok")
                      <=> (Attempted /\ host'.out = "success")
               /\ (result'[t] = "OsError")
                      <=> (Attempted /\ host'.out = "ioerror")
               /\ ~Attempted => host' = host
               /\ events' = IF result'[t] = "Ok"
                            THEN [events EXCEPT ![req[t].app] =
                                      @ \o ExternalStopped(req[t].app)]
                            ELSE events
               /\ processes' = processes
               /\ status' = status]_vars

\* One hinted stop ended an external process and another could not run its
\* termination command.
C15_Witness ==
    /\ \E x \in AppIds : \E i \in DOMAIN events[x] : events[x][i] = Stopped(x, 0)
    /\ \E t \in Threads : result[t] = "OsError"
    /\ host.seq = 2

\* ----------------------------------------------------------------- C17
\* The exit watchers of app id x that have not left their loop.
ActiveWatchers(x) ==
    {h \in Handles : appOf[h] = x /\ wpc[h] \in {"sleep", "locked"}}

\* C17: in every reachable state at most one exit watcher is active per app
\* id.
C17_OneWatcherPerApp ==
    \A x \in AppIds : Cardinality(ActiveWatchers(x)) <= 1

\* ----------------------------------------------------------------- C19
\* stop_app removed and killed child h.
StoppedByUser(h) == HasLine(h, "Process stopped by user")

\* C19: once stop has removed the child of a run, the watcher spawned for
\* that run emits no event in any of its ticks and, under fair scheduling,
\* terminates.
C19_WatcherEndsAfterStop ==
    /\ [][\A h \in Handles :
            (StoppedByUser(h) /\ Ticks(h)) => events' = events]_vars
    /\ \A h \in Handles : (StoppedByUser(h) /\ Launched(h)) ~> (wpc[h] = "done")

\* ----------------------------------------------------------------- C14
\* C14: the list get_listening_ports returns is sorted ascending by port
\* and holds no two records with the same (port, pid, protocol), whatever
\* netstat printed.
C14_PortsSortedNoDuplicates ==
    host.op = "get_listening_ports"
        => /\ \A i \in DOMAIN host.list, j \in DOMAIN host.list :
                  i < j => host.list[i].port <= host.list[j].port
           /\ \A i \in DOMAIN host.list, j \in DOMAIN host.list :
                  i # j => ~ /\ host.list[i].port = host.list[j].port
                             /\ host.list[i].pid = host.list[j].pid
                             /\ host.list[i].protocol = host.list[j].protocol

RECURSIVE RelayedLines(_, _, _)
RelayedLines(es, h, s) ==
    IF es = <<>> THEN <<>>
    ELSE LET e == es[Len(es)]
             before == RelayedLines(SubSeq(es, 1, Len(es) - 1), h, s)
         IN  IF /\ e.kind = "app-output"
                /\ e.run = h
                /\ \E l \in Lines : Decodable(l) /\ e.line = RelayLine(s, l)
             THEN Append(before, e.line)
             ELSE before

\* The texts among the lines ls of stream s, as an event words them, in the
\* order of ls.
RECURSIVE Texts(_, _)
Texts(ls, s) ==
    IF ls = <<>> THEN <<>>
    ELSE LET l == ls[Len(ls)]
             before == Texts(SubSeq(ls, 1, Len(ls) - 1), s)
         IN  IF Decodable(l) THEN Append(before, RelayLine(s, l)) ELSE before

\* The lines child h wrote to stream s that its relay has taken from the
\* pipe.
Taken(h, s) == SubSeq(wrote[h][s], 1, Len(wrote[h][s]) - Len(pipe[h][s]))

\* C11: for each stream of a child, the output events its relay emitted
\* carry the texts the child wrote to that stream and the relay has read, in
\* the order the child wrote them; nothing is said of the order between the
\* two streams.
C11_StreamOrderKept ==
    \A h \in Handles : \A s \in Streams :
        status[h] # "unborn"
            => RelayedLines(events[appOf[h]], h, s) = Texts(Taken(h, s), s)

\* A child wrote two texts to stdout and two to stderr and all were relayed,
\* the first of stderr between the two of stdout.
C11_Witness ==
    \E h \in Handles :
        /\ wrote[h]["stdout"] = <<"A", "B">>
        /\ wrote[h]["stderr"] = <<"A", "B">>
        /\ pipe[h]["stdout"] = <<>> /\ pipe[h]["stderr"] = <<>>
        /\ \E i, j, k \in DOMAIN events[appOf[h]] :
               /\ i < j /\ j < k
               /\ events[appOf[h]][i] = Output(appOf[h], "A", h)
               /\ events[appOf[h]][j] = Output(appOf[h], "[stderr] A", h)
               /\ events[appOf[h]][k] = Output(appOf[h], "B", h)

\* ----------------------------------------------------------------- C21
\* C21: whenever the watcher spawned with child h emits the exit diagnostic
\* and the stopped event, or removes an entry of the registry, the child it
\* waited on, reports on and removes is h itself, never the child of a later
\* start of the same app id.
C21_WatcherOwnRun ==
    [][\A h \in Handles :
        (Ticks(h) /\ (events' # events \/ processes' # processes))
            => /\ processes[appOf[h]] = h
               /\ \A i \in DOMAIN events'[appOf[h]] :
                      i > Len(events[appOf[h]])
                          => events'[appOf[h]][i].run = h]_vars

\* ----------------------------------------------------------------- C22
\* stop_app removed child h after the child had ended by itself: kill found
\* nothing to end.
StoppedAfterExit(h) == StoppedByUser(h) /\ status[h] \in {"exited", "lost"}

\* The events of stop_app's registry branch about child h of app id x.
UserStopped(x, h) ==
    <<[kind |-> "app-output", app |-> x, line |-> "Process stopped by user",
       arg |-> 0, run |-> h],
      [kind |-> "app-stopped", app |-> x, line |-> "", arg |-> 0, run |-> h]>>

\* The commands' half of C22: while the registry holds a child that has
\* exited, is_running answers true, the check of start answers AlreadyRunning
\* and stop returns success, removes the entry and emits the stopped-by-user
\* line and one app-stopped event.
C22_ExitedEntryAnswers ==
    [][\A t \in Threads :
        (/\ pc[t] \in {"q_body", "s_check", "p_body"}
         /\ processes[req[t].app] # 0
         /\ status[processes[req[t].app]] = "exited")
            => LET x == req[t].app
                   h == processes[x]
               IN  /\ Leaves(t, "q_body") => result'[t] = "true"
                   /\ Leaves(t, "s_check")
                          => /\ result'[t] = "AlreadyRunning"
                             /\ processes' = processes
                   /\ Leaves(t, "p_body")
                          => /\ result'[t] = "Ok"
                             /\ processes'[x] = 0
                             /\ status' = status
                             /\ events' = [events EXCEPT ![x] =
                                               @ \o UserStopped(x, h)]]_vars

\* C22: a stop of x issued after the child of x has exited and before the
\* watcher's next tick returns success, removes the entry and emits the
\* stopped-by-user line and exactly one app-stopped event; the watcher of
\* that run then emits nothing (no exit diagnostic, no second app-stopped)
\* and terminates; until that stop or tick, is_running(x) answers true and
\* start(x) answers AlreadyRunning.
C22_StopAfterExit ==
    /\ C22_ExitedEntryAnswers
    /\ [][\A h \in Handles :
            (StoppedAfterExit(h) /\ Ticks(h)) => events' = events]_vars
    /\ \A h \in Handles :
           (StoppedAfterExit(h) /\ Launched(h)) ~> (wpc[h] = "done")

\* ----------------------------------------------------------------- C23
\* The event e was emitted by a relay of child h.
Relayed(e, h) ==
    /\ e.kind = "app-output"
    /\ e.run = h
    /\ \E s \in Streams, l \in Lines :
           Decodable(l) /\ e.line = RelayLine(s, l)

\* C23: within one run every output event a relay emits comes before the
\* app-stopped event of that run: no event of a relay of child h follows
\* the app-stopped event about h.
C23_NoLineAfterStopped ==
    \A h \in Handles : \A x \in AppIds :
        \A i \in DOMAIN events[x], j \in DOMAIN events[x] :
            (events[x][i] = Stopped(x, h) /\ i < j)
                => ~Relayed(events[x][j], h)

\* ------------------------------------------------- contention on the lock
\* A GUI that issues its commands for the one app "x", without hint, and
\* does not wait for an answer: commands run at the same time as each other
\* and as the watchers.  The Mutex is one for all app ids, so the commands
\* and watchers of one id contend for it as those of several would.
LockNext ==
    \/ \E t \in Threads : InvokeStart(t, "x")
    \/ \E t \in Threads : InvokeStop(t, "x", FALSE)
    \/ \E t \in Threads : InvokeIsRunning(t, "x")
    \/ \E t \in Threads : StartLock1(t)
    \/ \E t \in Threads : StartCheck(t)
    \/ \E t \in Threads : StartSpawn(t)
    \/ \E t \in Threads : StartLock2(t)
    \/ \E t \in Threads : StartInsert(t)
    \/ \E t \in Threads : StartLaunch(t)
    \/ \E t \in Threads : StopLock(t)
    \/ \E t \in Threads : StopBody(t)
    \/ \E t \in Threads : IsRunningLock(t)
    \/ \E t \in Threads : IsRunningBody(t)
    \/ \E h \in Handles : WatcherLock(h)
    \/ \E h \in Handles : WatcherTick(h)
    \/ \E h \in Handles : ProcExit(h)
    \/ \E h \in Handles : ProcLost(h)

LockSpec == Init /\ [][LockNext]_vars /\ Fairness

\* ----------------------------------------------------------------- C24
\* Positions of a command at a lock() call, and inside a critical section.
AtLock == {"s_lock1", "s_lock2", "p_lock", "q_lock"}
InSection == {"s_check", "s_insert", "p_body", "q_body"}

\* C24: the registry lock never causes a deadlock.  The holder of the lock
\* is always a command or a watcher inside a critical section, so nobody
\* calls lock() while holding it; every holder releases the lock; and under
\* fair scheduling every command and every watcher that waits for the lock
\* acquires it.
C24_LockNeverDeadlocks ==
    /\ [](/\ \A t \in Threads :
                /\ (lock = ReqHolder(t)) <=> (pc[t] \in InSection)
                /\ pc[t] \in AtLock => lock # ReqHolder(t)
          /\ \A h \in Handles :
                (lock = WatchHolder(h)) <=> (wpc[h] = "locked"))
    /\ (lock # Free) ~> (lock = Free)
    /\ \A t \in Threads : (pc[t] \in AtLock) ~> (lock = ReqHolder(t))
    /\ \A h \in Handles : (wpc[h] = "sleep") ~> (wpc[h] = "locked")

\* Contention: a watcher holds the lock while a start_app that has spawned
\* its child waits at its second lock().
C24_Witness ==
    /\ \E h \in Handles : lock = WatchHolder(h)
    /\ \E t \in Threads : pc[t] = "s_lock2"

====
